---- MODULE Spec2Model ----
(***************************************************************************)
(* mine.c: one task-generating thread (main) hands batches of nonces to    *)
(* num_threads worker threads (mine) through the single pointer           *)
(* task_pointer, guarded by task_mutex and the condition variables        *)
(* task_staging (main waits for an empty slot) and task_ready (workers    *)
(* wait for a task).  A worker that finds a nonce whose SHA-1 front word   *)
(* passes the difficulty mask sets solution_found.                        *)
(*                                                                         *)
(* A 32-bit word is modelled as the set of the positions of its 1 bits,    *)
(* so that x | y is the union and x & y the intersection.                  *)
(***************************************************************************)
EXTENDS Integers, Sequences, FiniteSets, TLC

\* ------------------------------------------------------------------ bounds
\* largest number of worker threads (argv[1]) a run is started with
NumThreads == 2
\* width of current_nonce in the model (uint64_t in the source)
NonceBits == 8
\* batches main may allocate while no solution has been found
MaxTasks == 4

\* --------------------------------------------------------------- constants
NONCES_PER_TASK == 120
WordBits == 32

RECURSIVE Pow2(_)
Pow2(n) == IF n = 0 THEN 1 ELSE 2 * Pow2(n - 1)

NonceMod == Pow2(NonceBits)
\* UINT64_MAX at the model's width
UINT64_MAX == NonceMod - 1

NULL == 0
\* thread identities: workers are 0..NumThreads-1 (thread_id), main is -1
Main == -1
Free == -2
Workers == 0 .. (NumThreads - 1)

\* ------------------------------------------------------------- inputs
\* argv[2] and argv[3]: the difficulty and the block data
Inputs == { <<0, "B">>, <<24, "A">>, <<24, "B">>, <<24, "C">> }
\* argv[1]: the number of threads
ThreadCounts == 1 .. NumThreads

\* ------------------------------------------------------- pure functions
\* the values of argv[2] for which the mask is specified
Difficulties == 0 .. WordBits

\* 1 << i with the bits counted from the top
Shl1_FromTop(i) == {WordBits - 1 - i}

\* uint32_t position = 1 << i, for 0 <= i < 32.  The 1 is an int, so 1 << 31
\* does not fit; gcc, the compiler the file names, defines the result as the
\* sign bit, which the conversion to uint32_t keeps as bit 31.
Shl1(i) == {i}

\* get_difficulty: the loop  for (i = 0; i < 32 - diff; i++) mask |= 1 << i
RECURSIVE get_difficulty_loop(_, _, _)
get_difficulty_loop(mask, i, diff) ==
    IF i < WordBits - diff
    THEN get_difficulty_loop(mask \cup Shl1(i), i + 1, diff)
    ELSE mask

get_difficulty(diff) == get_difficulty_loop({}, 0, diff)

\* sha1sum followed by the assembly of hash_front from digest[0..3], for the
\* string block ++ decimal(nonce).  SHA-1 is an external collaborator: it is
\* a fixed table, different for every block.
hash_front_of(block, nonce) ==
    CASE block = "A" -> IF nonce \in {7, 130} THEN {7, 0} ELSE {31, 3}
      [] block = "B" -> {31, 5}
      [] OTHER       -> IF nonce = 250 THEN {5} ELSE {30, 1}

\* (hash_front & difficulty_mask) == hash_front
IsSolution(hash_front, mask) == (hash_front \cap mask) = hash_front

\* the generating loop  for (i = 0; i < NONCES_PER_TASK; ++i)
\*     nonces[i] = current_nonce++;
\* on NonceBits bits: the array it fills (indexed from 1) and the counter
\* it leaves
FillNonces(cn) ==
    [nonces |-> [i \in 1 .. NONCES_PER_TASK |-> (cn + (i - 1)) % NonceMod],
     current_nonce |-> (cn + NONCES_PER_TASK) % NonceMod]

\* the mining loop without its return: it stops at the last solution
FirstMatch_Last(arr, block, mask) ==
    LET hits == { i \in 0 .. (NONCES_PER_TASK - 1) :
                    IsSolution(hash_front_of(block, arr[i + 1]), mask) }
    IN IF hits = {} THEN NONCES_PER_TASK
       ELSE CHOOSE i \in hits : \A j \in hits : i >= j

\* the mining loop  for (i = 0; i < NONCES_PER_TASK; ++i): the index at
\* which it returns, that of the first nonce of the batch that is a
\* solution, or NONCES_PER_TASK when it runs to its end
FirstMatch(arr, block, mask) ==
    LET hits == { i \in 0 .. (NONCES_PER_TASK - 1) :
                    IsSolution(hash_front_of(block, arr[i + 1]), mask) }
    IN IF hits = {} THEN NONCES_PER_TASK
       ELSE CHOOSE i \in hits : \A j \in hits : i <= j

\* ---------------------------------------------------------------- state
\* A malloc'ed batch is named by its rank of allocation (1, 2, ...), so that
\* two batches are never confused even when free() would let malloc hand
\* out the same address again.
VARIABLES
    gd_diff,              \* get_difficulty: int diff
    gd_i,                 \* get_difficulty: int i
    gd_mask,              \* get_difficulty: uint32_t mask
    gd_pc,                \* get_difficulty: position ("loop", "returned")
    num_threads,          \* main: unsigned int num_threads
    difficulty_mask,      \* uint32_t difficulty_mask
    bitcoin_block_data,   \* char *bitcoin_block_data
    task_pointer,         \* uint64_t *task_pointer: NULL or a heap block
    solution_found,       \* bool solution_found
    task_mutex,           \* owner of task_mutex, or Free
    task_staging,         \* threads blocked in pthread_cond_wait(&task_staging)
    task_ready,           \* threads blocked in pthread_cond_wait(&task_ready)
    current_nonce,        \* main: uint64_t current_nonce
    nonces,               \* main: uint64_t *nonces, the batch being staged
    heap,                 \* the malloc'ed batches, heap[p] is the array at p
    g_pc,                 \* position of main
    w_pc,                 \* position of each worker
    task_nonces,          \* mine: uint64_t *task_nonces, per worker
    threads,              \* struct thread_info of each worker
    published,            \* history: the blocks stored in task_pointer, in order
    claimed,              \* history: <<worker, block>> for each copy of task_pointer
    hashed,               \* history: the nonces each worker has passed to sha1sum
    observed,             \* history: main took the break on solution_found
    report                \* what print_results printed

gvars == <<current_nonce, nonces, heap, g_pc, published, observed, report>>
wvars == <<w_pc, task_nonces, threads, claimed, hashed>>
svars == <<task_pointer, solution_found, task_mutex, task_staging, task_ready>>
gdvars == <<gd_diff, gd_i, gd_mask, gd_pc>>
cvars == <<gdvars, num_threads, difficulty_mask, bitcoin_block_data>>
vars == <<gd_diff, gd_i, gd_mask, gd_pc, num_threads, difficulty_mask, bitcoin_block_data, task_pointer, solution_found,
          task_mutex, task_staging, task_ready, current_nonce, nonces, heap,
          g_pc, w_pc, task_nonces, threads, published, claimed, hashed,
          observed, report>>

\* calloc(1, sizeof(struct thread_info)) and thread_id = i
NewThreadInfo ==
    [num_inversions |-> 0, nonce |-> 0, solution_hash |-> <<>>]

\* the state when main has created the workers and enters its loop; a
\* thread_info beyond num_threads has no thread ("none")
Init ==
    /\ num_threads \in ThreadCounts
    /\ \E argv \in Inputs :
          /\ difficulty_mask = get_difficulty(argv[1])
          /\ bitcoin_block_data = argv[2]
          /\ gd_diff = argv[1]
          /\ gd_i = WordBits - argv[1]
    /\ gd_mask = difficulty_mask
    /\ gd_pc = "returned"
    /\ task_pointer = NULL
    /\ solution_found = FALSE
    /\ task_mutex = Free
    /\ task_staging = {}
    /\ task_ready = {}
    /\ current_nonce = 0
    /\ nonces = NULL
    /\ heap = <<>>
    /\ g_pc = "loop"
    /\ w_pc = [w \in Workers |-> IF w < num_threads THEN "lock" ELSE "none"]
    /\ task_nonces = [w \in Workers |-> NULL]
    /\ threads = [w \in Workers |-> NewThreadInfo]
    /\ published = <<>>
    /\ claimed = <<>>
    /\ hashed = [w \in Workers |-> {}]
    /\ observed = FALSE
    /\ report = <<>>

\* pthread_cond_signal: wakes one of the threads blocked on the condition,
\* does nothing when there is none
Signalled(cond) ==
    IF cond = {} THEN {cond} ELSE { cond \ {t} : t \in cond }

\* ------------------------------------------------------------------ main
\* while (current_nonce < UINT64_MAX) { malloc; fill the batch }
\* The history of batches is kept finite: while no solution has been found
\* main allocates at most MaxTasks batches.  Once solution_found is set main
\* is never held back (it allocates at most one more batch before it sees
\* the flag), so no blocking of main after the flag is set comes from here.
G_Loop ==
    /\ g_pc = "loop"
    /\ (Len(heap) < MaxTasks \/ solution_found)
    /\ IF current_nonce < UINT64_MAX
       THEN LET f == FillNonces(current_nonce) IN
            /\ heap' = Append(heap, f.nonces)
            /\ nonces' = Len(heap) + 1
            /\ current_nonce' = f.current_nonce
            /\ g_pc' = "lock"
       ELSE /\ g_pc' = "bcast"
            /\ UNCHANGED <<heap, nonces, current_nonce>>
    /\ UNCHANGED <<published, observed, report>>
    /\ UNCHANGED <<wvars, svars, cvars>>

\* pthread_mutex_lock(&task_mutex)
G_Lock ==
    /\ g_pc = "lock"
    /\ task_mutex = Free
    /\ task_mutex' = Main
    /\ g_pc' = "test"
    /\ UNCHANGED <<task_pointer, solution_found, task_staging, task_ready>>
    /\ UNCHANGED <<current_nonce, nonces, heap, published, observed, report>>
    /\ UNCHANGED <<wvars, cvars>>

\* G_Test without the wait for an empty task_pointer
G_Test_NoWait ==
    /\ g_pc = "test"
    /\ g_pc' = "check"
    /\ UNCHANGED <<current_nonce, nonces, heap, published, observed, report>>
    /\ UNCHANGED <<wvars, svars, cvars>>

\* while (task_pointer != NULL && solution_found == false)
G_Test ==
    /\ g_pc = "test"
    /\ g_pc' = IF task_pointer # NULL /\ solution_found = FALSE
               THEN "cwait" ELSE "check"
    /\ UNCHANGED <<current_nonce, nonces, heap, published, observed, report>>
    /\ UNCHANGED <<wvars, svars, cvars>>

\* pthread_cond_wait(&task_staging, &task_mutex): release and block
G_Wait ==
    /\ g_pc = "cwait"
    /\ task_mutex' = Free
    /\ task_staging' = task_staging \cup {Main}
    /\ g_pc' = "wait"
    /\ UNCHANGED <<task_pointer, solution_found, task_ready>>
    /\ UNCHANGED <<current_nonce, nonces, heap, published, observed, report>>
    /\ UNCHANGED <<wvars, cvars>>

\* pthread_cond_wait returns: woken, the mutex is taken again
G_Wake ==
    /\ g_pc = "wait"
    /\ Main \notin task_staging
    /\ task_mutex = Free
    /\ task_mutex' = Main
    /\ g_pc' = "test"
    /\ UNCHANGED <<task_pointer, solution_found, task_staging, task_ready>>
    /\ UNCHANGED <<current_nonce, nonces, heap, published, observed, report>>
    /\ UNCHANGED <<wvars, cvars>>

\* G_Check without the break
G_Check_NoBreak ==
    /\ g_pc = "check"
    /\ g_pc' = "publish"
    /\ observed' = (observed \/ solution_found)
    /\ UNCHANGED <<current_nonce, nonces, heap, published, report>>
    /\ UNCHANGED <<wvars, svars, cvars>>

\* G_Check that unlocks before it breaks
G_Check_UnlocksOnBreak ==
    /\ g_pc = "check"
    /\ IF solution_found = TRUE
       THEN g_pc' = "bcast" /\ observed' = TRUE /\ task_mutex' = Free
       ELSE g_pc' = "publish" /\ observed' = observed
            /\ task_mutex' = task_mutex
    /\ UNCHANGED <<task_pointer, solution_found, task_staging, task_ready>>
    /\ UNCHANGED <<current_nonce, nonces, heap, published, report>>
    /\ UNCHANGED <<wvars, cvars>>

\* if (solution_found == true) break;
G_Check ==
    /\ g_pc = "check"
    /\ IF solution_found = TRUE
       THEN g_pc' = "bcast" /\ observed' = TRUE
       ELSE g_pc' = "publish" /\ observed' = observed
    /\ UNCHANGED <<current_nonce, nonces, heap, published, report>>
    /\ UNCHANGED <<wvars, svars, cvars>>

\* G_Publish that also clears solution_found for the new batch
G_Publish_ResetsFlag ==
    /\ g_pc = "publish"
    /\ task_pointer' = nonces
    /\ published' = Append(published, nonces)
    /\ solution_found' = FALSE
    /\ g_pc' = "sig"
    /\ UNCHANGED <<task_mutex, task_staging, task_ready>>
    /\ UNCHANGED <<current_nonce, nonces, heap, observed, report>>
    /\ UNCHANGED <<wvars, cvars>>

\* task_pointer = nonces;
G_Publish ==
    /\ g_pc = "publish"
    /\ task_pointer' = nonces
    /\ published' = Append(published, nonces)
    /\ g_pc' = "sig"
    /\ UNCHANGED <<solution_found, task_mutex, task_staging, task_ready>>
    /\ UNCHANGED <<current_nonce, nonces, heap, observed, report>>
    /\ UNCHANGED <<wvars, cvars>>

\* pthread_cond_signal(&task_ready);
G_Signal ==
    /\ g_pc = "sig"
    /\ task_ready' \in Signalled(task_ready)
    /\ g_pc' = "unlock"
    /\ UNCHANGED <<task_pointer, solution_found, task_mutex, task_staging>>
    /\ UNCHANGED <<current_nonce, nonces, heap, published, observed, report>>
    /\ UNCHANGED <<wvars, cvars>>

\* pthread_mutex_unlock(&task_mutex); end of the loop body
G_Unlock ==
    /\ g_pc = "unlock"
    /\ task_mutex' = Free
    /\ g_pc' = "loop"
    /\ UNCHANGED <<task_pointer, solution_found, task_staging, task_ready>>
    /\ UNCHANGED <<current_nonce, nonces, heap, published, observed, report>>
    /\ UNCHANGED <<wvars, cvars>>

\* pthread_cond_broadcast(&task_ready);
G_Broadcast ==
    /\ g_pc = "bcast"
    /\ task_ready' = {}
    /\ g_pc' = "funlock"
    /\ UNCHANGED <<task_pointer, solution_found, task_mutex, task_staging>>
    /\ UNCHANGED <<current_nonce, nonces, heap, published, observed, report>>
    /\ UNCHANGED <<wvars, cvars>>

\* pthread_mutex_unlock(&task_mutex) after the loop.  Unlocking a default
\* mutex the caller does not hold is undefined: the call either has no
\* effect or releases the mutex under its owner.
G_FinalUnlock ==
    /\ g_pc = "funlock"
    /\ IF task_mutex = Main
       THEN task_mutex' = Free
       ELSE task_mutex' \in {task_mutex, Free}
    /\ g_pc' = "join"
    /\ UNCHANGED <<task_pointer, solution_found, task_staging, task_ready>>
    /\ UNCHANGED <<current_nonce, nonces, heap, published, observed, report>>
    /\ UNCHANGED <<wvars, cvars>>

\* G_Join that does not wait for the workers
G_Join_NoWait ==
    /\ g_pc = "join"
    /\ g_pc' = "print"
    /\ UNCHANGED <<current_nonce, nonces, heap, published, observed, report>>
    /\ UNCHANGED <<wvars, svars, cvars>>

\* for (i = 0; i < num_threads; i++) pthread_join(...)
G_Join ==
    /\ g_pc = "join"
    /\ \A w \in Workers : w < num_threads => w_pc[w] = "done"
    /\ g_pc' = "print"
    /\ UNCHANGED <<current_nonce, nonces, heap, published, observed, report>>
    /\ UNCHANGED <<wvars, svars, cvars>>

\* print_results: the "Solution found by thread" lines, in thread order, and
\* the sum of num_inversions
RECURSIVE print_results(_, _, _)
print_results(i, lines, total_inversions) ==
    IF i < num_threads
    THEN print_results(i + 1,
             IF Len(threads[i].solution_hash) > 0
             THEN Append(lines, [thread_id |-> i, nonce |-> threads[i].nonce,
                                 hash |-> threads[i].solution_hash])
             ELSE lines,
             (total_inversions + threads[i].num_inversions) % NonceMod)
    ELSE [solutions |-> lines, total_inversions |-> total_inversions]

G_Print ==
    /\ g_pc = "print"
    /\ report' = <<print_results(0, <<>>, 0)>>
    /\ g_pc' = "exit"
    /\ UNCHANGED <<current_nonce, nonces, heap, published, observed>>
    /\ UNCHANGED <<wvars, svars, cvars>>

\* ------------------------------------------------------------------ mine
\* pthread_mutex_lock(&task_mutex)
W_Lock(w) ==
    /\ w_pc[w] = "lock"
    /\ task_mutex = Free
    /\ task_mutex' = w
    /\ w_pc' = [w_pc EXCEPT ![w] = "test"]
    /\ UNCHANGED <<task_pointer, solution_found, task_staging, task_ready>>
    /\ UNCHANGED <<task_nonces, threads, claimed, hashed>>
    /\ UNCHANGED <<gvars, cvars>>

\* while (task_pointer == NULL && solution_found == false)
W_Test(w) ==
    /\ w_pc[w] = "test"
    /\ w_pc' = [w_pc EXCEPT ![w] =
                  IF task_pointer = NULL /\ solution_found = FALSE
                  THEN "cwait" ELSE "check"]
    /\ UNCHANGED <<task_nonces, threads, claimed, hashed>>
    /\ UNCHANGED <<gvars, svars, cvars>>

\* pthread_cond_wait(&task_ready, &task_mutex): release and block
W_Wait(w) ==
    /\ w_pc[w] = "cwait"
    /\ task_mutex' = Free
    /\ task_ready' = task_ready \cup {w}
    /\ w_pc' = [w_pc EXCEPT ![w] = "wait"]
    /\ UNCHANGED <<task_pointer, solution_found, task_staging>>
    /\ UNCHANGED <<task_nonces, threads, claimed, hashed>>
    /\ UNCHANGED <<gvars, cvars>>

\* W_Wake of a wait guarded by an if instead of a while: no second test
W_Wake_NoRetest(w) ==
    /\ w_pc[w] = "wait"
    /\ w \notin task_ready
    /\ task_mutex = Free
    /\ task_mutex' = w
    /\ w_pc' = [w_pc EXCEPT ![w] = "check"]
    /\ UNCHANGED <<task_pointer, solution_found, task_staging, task_ready>>
    /\ UNCHANGED <<task_nonces, threads, claimed, hashed>>
    /\ UNCHANGED <<gvars, cvars>>

\* pthread_cond_wait returns: woken, the mutex is taken again
W_Wake(w) ==
    /\ w_pc[w] = "wait"
    /\ w \notin task_ready
    /\ task_mutex = Free
    /\ task_mutex' = w
    /\ w_pc' = [w_pc EXCEPT ![w] = "test"]
    /\ UNCHANGED <<task_pointer, solution_found, task_staging, task_ready>>
    /\ UNCHANGED <<task_nonces, threads, claimed, hashed>>
    /\ UNCHANGED <<gvars, cvars>>

\* if (solution_found)
W_Check(w) ==
    /\ w_pc[w] = "check"
    /\ w_pc' = [w_pc EXCEPT ![w] = IF solution_found THEN "tsig" ELSE "claim"]
    /\ UNCHANGED <<task_nonces, threads, claimed, hashed>>
    /\ UNCHANGED <<gvars, svars, cvars>>

\* W_TermSignal that also empties task_pointer before it returns
W_TermSignal_DropsTask(w) ==
    /\ w_pc[w] = "tsig"
    /\ task_staging' \in Signalled(task_staging)
    /\ task_pointer' = NULL
    /\ w_pc' = [w_pc EXCEPT ![w] = "tunlock"]
    /\ UNCHANGED <<solution_found, task_mutex, task_ready>>
    /\ UNCHANGED <<task_nonces, threads, claimed, hashed>>
    /\ UNCHANGED <<gvars, cvars>>

\* solution seen: pthread_cond_signal(&task_staging);
W_TermSignal(w) ==
    /\ w_pc[w] = "tsig"
    /\ task_staging' \in Signalled(task_staging)
    /\ w_pc' = [w_pc EXCEPT ![w] = "tunlock"]
    /\ UNCHANGED <<task_pointer, solution_found, task_mutex, task_ready>>
    /\ UNCHANGED <<task_nonces, threads, claimed, hashed>>
    /\ UNCHANGED <<gvars, cvars>>

\* pthread_mutex_unlock(&task_mutex); return NULL;
W_TermUnlock(w) ==
    /\ w_pc[w] = "tunlock"
    /\ task_mutex' = Free
    /\ w_pc' = [w_pc EXCEPT ![w] = "done"]
    /\ UNCHANGED <<task_pointer, solution_found, task_staging, task_ready>>
    /\ UNCHANGED <<task_nonces, threads, claimed, hashed>>
    /\ UNCHANGED <<gvars, cvars>>

\* W_Claim that leaves the batch in task_pointer
W_Claim_KeepsSlot(w) ==
    /\ w_pc[w] = "claim"
    /\ task_nonces' = [task_nonces EXCEPT ![w] = task_pointer]
    /\ claimed' = Append(claimed, <<w, task_pointer>>)
    /\ w_pc' = [w_pc EXCEPT ![w] = "csig"]
    /\ UNCHANGED <<task_pointer, solution_found, task_mutex, task_staging,
                   task_ready>>
    /\ UNCHANGED <<threads, hashed>>
    /\ UNCHANGED <<gvars, cvars>>

\* task_nonces = task_pointer; task_pointer = NULL;
W_Claim(w) ==
    /\ w_pc[w] = "claim"
    /\ task_nonces' = [task_nonces EXCEPT ![w] = task_pointer]
    /\ task_pointer' = NULL
    /\ claimed' = Append(claimed, <<w, task_pointer>>)
    /\ w_pc' = [w_pc EXCEPT ![w] = "csig"]
    /\ UNCHANGED <<solution_found, task_mutex, task_staging, task_ready>>
    /\ UNCHANGED <<threads, hashed>>
    /\ UNCHANGED <<gvars, cvars>>

\* task taken: pthread_cond_signal(&task_staging);
W_ClaimSignal(w) ==
    /\ w_pc[w] = "csig"
    /\ task_staging' \in Signalled(task_staging)
    /\ w_pc' = [w_pc EXCEPT ![w] = "cunlock"]
    /\ UNCHANGED <<task_pointer, solution_found, task_mutex, task_ready>>
    /\ UNCHANGED <<task_nonces, threads, claimed, hashed>>
    /\ UNCHANGED <<gvars, cvars>>

\* pthread_mutex_unlock(&task_mutex);
W_ClaimUnlock(w) ==
    /\ w_pc[w] = "cunlock"
    /\ task_mutex' = Free
    /\ w_pc' = [w_pc EXCEPT ![w] = "process"]
    /\ UNCHANGED <<task_pointer, solution_found, task_staging, task_ready>>
    /\ UNCHANGED <<task_nonces, threads, claimed, hashed>>
    /\ UNCHANGED <<gvars, cvars>>

\* the nonces of a batch the loop hashes when it stops at index i
HashedUpTo(arr, i) ==
    { arr[j + 1] : j \in 0 .. (IF i < NONCES_PER_TASK THEN i ELSE i - 1) }

\* W_Process that counts a batch twice, when it starts and when it ends
W_Process_CountsTwice(w) ==
    /\ w_pc[w] = "process"
    /\ IF task_nonces[w] = NULL
       THEN /\ w_pc' = [w_pc EXCEPT ![w] = "crashed"]
            /\ UNCHANGED <<threads, hashed>>
       ELSE LET arr == heap[task_nonces[w]]
                i == FirstMatch(arr, bitcoin_block_data, difficulty_mask)
            IN /\ hashed' = [hashed EXCEPT ![w] = @ \cup HashedUpTo(arr, i)]
               /\ IF i < NONCES_PER_TASK
                  THEN /\ w_pc' = [w_pc EXCEPT ![w] = "found"]
                       /\ threads' = [threads EXCEPT ![w].num_inversions =
                                         (@ + NONCES_PER_TASK) % NonceMod]
                  ELSE /\ w_pc' = [w_pc EXCEPT ![w] = "lock"]
                       /\ threads' = [threads EXCEPT ![w].num_inversions =
                                         (@ + 2 * NONCES_PER_TASK) % NonceMod]
    /\ UNCHANGED <<task_nonces, claimed>>
    /\ UNCHANGED <<gvars, svars, cvars>>

\* for (i = 0; i < NONCES_PER_TASK; ++i) { hash; test the mask }
\* up to the first solution; without one: free(task_nonces) and
\* num_inversions += NONCES_PER_TASK (a uint64_t, as current_nonce is, on
\* NonceBits bits here).  Reading through a NULL task_nonces ends the
\* process.
W_Process(w) ==
    /\ w_pc[w] = "process"
    /\ IF task_nonces[w] = NULL
       THEN /\ w_pc' = [w_pc EXCEPT ![w] = "crashed"]
            /\ UNCHANGED <<threads, hashed>>
       ELSE LET arr == heap[task_nonces[w]]
                i == FirstMatch(arr, bitcoin_block_data, difficulty_mask)
            IN /\ hashed' = [hashed EXCEPT ![w] = @ \cup HashedUpTo(arr, i)]
               /\ IF i < NONCES_PER_TASK
                  THEN /\ w_pc' = [w_pc EXCEPT ![w] = "found"]
                       /\ UNCHANGED threads
                  ELSE /\ w_pc' = [w_pc EXCEPT ![w] = "lock"]
                       /\ threads' = [threads EXCEPT ![w].num_inversions =
                                         (@ + NONCES_PER_TASK) % NonceMod]
    /\ UNCHANGED <<task_nonces, claimed>>
    /\ UNCHANGED <<gvars, svars, cvars>>

\* solution_found = true; info->nonce = task_nonces[i];
\* sha1tostring(info->solution_hash, digest);
W_Found(w) ==
    /\ w_pc[w] = "found"
    /\ LET arr == heap[task_nonces[w]]
           i == FirstMatch(arr, bitcoin_block_data, difficulty_mask)
       IN threads' = [threads EXCEPT
                        ![w].nonce = arr[i + 1],
                        ![w].solution_hash =
                            <<hash_front_of(bitcoin_block_data, arr[i + 1])>>]
    /\ solution_found' = TRUE
    /\ w_pc' = [w_pc EXCEPT ![w] = "msig"]
    /\ UNCHANGED <<task_pointer, task_mutex, task_staging, task_ready>>
    /\ UNCHANGED <<task_nonces, claimed, hashed>>
    /\ UNCHANGED <<gvars, cvars>>

\* pthread_cond_signal(&task_staging); return NULL;
W_MatchSignal(w) ==
    /\ w_pc[w] = "msig"
    /\ task_staging' \in Signalled(task_staging)
    /\ w_pc' = [w_pc EXCEPT ![w] = "done"]
    /\ UNCHANGED <<task_pointer, solution_found, task_mutex, task_ready>>
    /\ UNCHANGED <<task_nonces, threads, claimed, hashed>>
    /\ UNCHANGED <<gvars, cvars>>

\* pthread_cond_wait may return without a signal
SpuriousWake ==
    /\ \/ /\ task_staging # {}
          /\ task_staging' = {}
          /\ UNCHANGED task_ready
       \/ /\ \E w \in task_ready : task_ready' = task_ready \ {w}
          /\ UNCHANGED task_staging
    /\ UNCHANGED <<task_pointer, solution_found, task_mutex>>
    /\ UNCHANGED <<gvars, wvars, cvars>>

\* -------------------------------------------------------- get_difficulty
\* main at  difficulty_mask = get_difficulty(atoi(argv[2])) : no thread has
\* been created yet
MaskInit ==
    /\ gd_diff \in Difficulties
    /\ gd_i = 0
    /\ gd_mask = {}
    /\ gd_pc = "loop"
    /\ num_threads = 1
    /\ difficulty_mask = {}
    /\ bitcoin_block_data = ""
    /\ task_pointer = NULL
    /\ solution_found = FALSE
    /\ task_mutex = Free
    /\ task_staging = {}
    /\ task_ready = {}
    /\ current_nonce = 0
    /\ nonces = NULL
    /\ heap = <<>>
    /\ g_pc = "get_difficulty"
    /\ w_pc = [w \in Workers |-> "none"]
    /\ task_nonces = [w \in Workers |-> NULL]
    /\ threads = [w \in Workers |-> NewThreadInfo]
    /\ published = <<>>
    /\ claimed = <<>>
    /\ hashed = [w \in Workers |-> {}]
    /\ observed = FALSE
    /\ report = <<>>

\* one turn of  for (i = 0; i < 32 - diff; i++) { mask = mask | 1 << i; }
GD_Step ==
    /\ gd_pc = "loop"
    /\ gd_i < WordBits - gd_diff
    /\ gd_mask' = gd_mask \cup Shl1(gd_i)
    /\ gd_i' = gd_i + 1
    /\ UNCHANGED <<gd_diff, gd_pc, num_threads, difficulty_mask,
                   bitcoin_block_data>>
    /\ UNCHANGED <<gvars, wvars, svars>>

\* the loop ends: return mask; stored in difficulty_mask by main
GD_Return ==
    /\ gd_pc = "loop"
    /\ ~ (gd_i < WordBits - gd_diff)
    /\ gd_pc' = "returned"
    /\ difficulty_mask' = gd_mask
    /\ UNCHANGED <<gd_diff, gd_i, gd_mask, num_threads, bitcoin_block_data>>
    /\ UNCHANGED <<gvars, wvars, svars>>

MaskNext == GD_Step \/ GD_Return

MaskSpec == MaskInit /\ [][MaskNext]_vars

\* --------------------------------------------------------- specifications
MainStep ==
    \/ G_Loop \/ G_Lock \/ G_Test \/ G_Wait \/ G_Wake \/ G_Check
    \/ G_Publish \/ G_Signal \/ G_Unlock \/ G_Broadcast \/ G_FinalUnlock
    \/ G_Join \/ G_Print

WorkerStep(w) ==
    \/ W_Lock(w) \/ W_Test(w) \/ W_Wait(w) \/ W_Wake(w) \/ W_Check(w)
    \/ W_TermSignal(w) \/ W_TermUnlock(w) \/ W_Claim(w) \/ W_ClaimSignal(w)
    \/ W_ClaimUnlock(w) \/ W_Process(w) \/ W_Found(w) \/ W_MatchSignal(w)

Next ==
    \/ MainStep
    \/ \E w \in Workers : WorkerStep(w)
    \/ SpuriousWake

Spec == Init /\ [][Next]_vars

\* every thread that can run does run; a wake-up without a signal is never
\* owed to a waiting thread
FairSpec ==
    /\ Spec
    /\ WF_vars(MainStep)
    /\ \A w \in Workers : WF_vars(WorkerStep(w))

\* ---------------------------------------------------------------- claims
AllWorkersDone == \A w \in Workers : w < num_threads => w_pc[w] = "done"
Winners == { w \in Workers : Len(threads[w].solution_hash) > 0 }

\* C1: a published batch is copied out of task_pointer by at most one
\* worker, once, and the copy leaves task_pointer empty
C1_ClaimedOnce ==
    /\ \A i, j \in DOMAIN claimed :
          i # j => claimed[i][2] # claimed[j][2]
    /\ \A w \in Workers : w_pc[w] = "csig" => task_pointer = NULL

C1_Witness ==
    /\ Len(claimed) >= 2
    /\ claimed[1][1] # claimed[2][1]
    /\ claimed[1][2] # NULL /\ claimed[2][2] # NULL

\* C2: when print_results runs, at most one thread_info carries a solution
C2_AtMostOneWinner ==
    g_pc \in {"print", "exit"} => Cardinality(Winners) <= 1

\* C3: no state has main blocked on task_staging after solution_found was
\* set with no thread left to signal it
C3_MainNotStuck ==
    ~ ( /\ solution_found
        /\ g_pc = "wait"
        /\ Main \in task_staging
        /\ AllWorkersDone )

\* C3 as a progress property: once solution_found is set main leaves its loop
C3_MainLeaves ==
    solution_found ~> (g_pc \in {"bcast", "funlock", "join", "print", "exit"})

\* C4: a thread about to read or write task_pointer or solution_found holds
\* task_mutex
C4_AccessUnderLock ==
    /\ g_pc \in {"test", "check", "publish"} => task_mutex = Main
    /\ \A w \in Workers :
          w_pc[w] \in {"test", "check", "claim", "found"} => task_mutex = w

\* C5: the published batches, in order, are 0, 1, 2, ..., K-1
C5_Contiguous ==
    \A k \in DOMAIN published : \A i \in 1 .. NONCES_PER_TASK :
        heap[published[k]][i] = (k - 1) * NONCES_PER_TASK + (i - 1)

\* C6: solution_found starts false and is never reset once true
C6_FlagMonotone ==
    /\ solution_found = FALSE
    /\ [][solution_found => solution_found']_vars

C6_Witness == solution_found /\ g_pc = "exit"

\* C7: at most one published batch is unclaimed, it is the one in
\* task_pointer, and main stores a batch only into an empty task_pointer
C7_SingleSlot ==
    /\ Len(published) - Len(claimed) \in {0, 1}
    /\ (task_pointer # NULL) <=> (Len(published) = Len(claimed) + 1)
    /\ task_pointer # NULL => task_pointer = published[Len(published)]
    /\ g_pc = "publish" => task_pointer = NULL

C7_Witness ==
    /\ Len(published) >= 2
    /\ task_pointer # NULL
    /\ Len(claimed) >= 1

\* C8: once solution_found is set every worker returns and main gets
\* through its joins
C8_WorkersStop == solution_found ~> AllWorkersDone

C8_JoinCompletes ==
    solution_found ~> (AllWorkersDone /\ g_pc \in {"print", "exit"})

\* C9: once main has seen solution_found it stores no batch: task_pointer
\* and the published batches stay as they are
C9_NoPublishAfterObserved ==
    [][observed => (published' = published /\ task_pointer' = task_pointer)]_vars

C9_Witness == observed /\ g_pc = "exit" /\ task_pointer # NULL

\* C10: a worker about to process a batch it has just claimed, with
\* solution_found already set, hashes no nonce of it
C10_RecheckBeforeBatch ==
    [][\A w \in Workers :
          (w_pc[w] = "process" /\ solution_found) =>
              (hashed'[w] = hashed[w] /\ w_pc'[w] \in {"process", "done"})]_vars

\* the nonce a single-threaded scan 0, 1, 2, ... stops at, -1 when the nonce
\* space holds no solution
SequentialSolution ==
    LET sols == { n \in 0 .. UINT64_MAX :
                    IsSolution(hash_front_of(bitcoin_block_data, n),
                               difficulty_mask) }
    IN IF sols = {} THEN -1 ELSE CHOOSE n \in sols : \A m \in sols : n <= m

\* C11: every solution a completed run reports is the smallest nonce that
\* satisfies the difficulty mask
C11_ReportsSmallest ==
    g_pc = "exit" =>
        \A k \in DOMAIN report[1].solutions :
            report[1].solutions[k].nonce = SequentialSolution

\* C12: a worker that finds solution_found set after its wait returns
\* without consuming: from the test of the flag to its return, task_pointer,
\* its thread_info and its own batch pointer stay as they are
C12_TerminatedConsumesNothing ==
    [][\A w \in Workers :
          (\/ (w_pc[w] = "check" /\ solution_found)
           \/ w_pc[w] \in {"tsig", "tunlock"}) =>
              /\ task_pointer' = task_pointer
              /\ threads'[w] = threads[w]
              /\ task_nonces'[w] = task_nonces[w]
              /\ Len(claimed') = Len(claimed)]_vars

C12_Witness ==
    \E w \in Workers :
        /\ w_pc[w] = "done"
        /\ Len(threads[w].solution_hash) = 0
        /\ task_pointer # NULL

\* supporting C11: the smallest solution is always among the reported ones
C11_SmallestIsReported ==
    (g_pc = "exit" /\ SequentialSolution # -1) =>
        \E k \in DOMAIN report[1].solutions :
            report[1].solutions[k].nonce = SequentialSolution

\* C13: print_results runs only when every worker has returned, and no
\* thread_info is written from then on
C13_AggregateAfterJoin ==
    /\ [](g_pc \in {"print", "exit"} => AllWorkersDone)
    /\ [][(g_pc \in {"print", "exit"}) => (threads' = threads)]_vars

C13_Witness ==
    /\ g_pc = "exit"
    /\ num_threads >= 2
    /\ report[1].solutions # <<>>
    /\ report[1].total_inversions > 0

RECURSIVE SumInversions(_)
SumInversions(W) ==
    IF W = {} THEN 0
    ELSE LET w == CHOOSE x \in W : TRUE
         IN threads[w].num_inversions + SumInversions(W \ {w})

\* the nonces main has generated: NONCES_PER_TASK for each batch it filled
Generated == Len(heap) * NONCES_PER_TASK

\* C14: the sum of the workers' num_inversions never exceeds the number of
\* nonces generated, nor does the total print_results prints
C14_ProcessedAtMostGenerated ==
    /\ SumInversions(Workers) <= Generated
    /\ g_pc = "exit" => report[1].total_inversions <= Generated

C14_Witness ==
    /\ g_pc = "exit"
    /\ report[1].total_inversions > 0
    /\ report[1].total_inversions < Generated

\* the batches worker w has copied out of task_pointer
ClaimsOf(w) == { k \in DOMAIN claimed : claimed[k][1] = w }

\* the batches worker w has scanned to the end without a solution
ScannedWithoutMatch(w) ==
    { k \in ClaimsOf(w) :
        /\ claimed[k][2] # NULL
        /\ FirstMatch(heap[claimed[k][2]], bitcoin_block_data,
                      difficulty_mask) = NONCES_PER_TASK
        /\ ~ ( w_pc[w] \in {"csig", "cunlock", "process"}
               /\ \A j \in ClaimsOf(w) : j <= k ) }

\* C17: num_inversions of a worker never decreases and is NONCES_PER_TASK
\* times the number of batches it scanned to the end without a solution
C17_CountIsBatches ==
    /\ [](\A w \in Workers :
            threads[w].num_inversions =
                NONCES_PER_TASK * Cardinality(ScannedWithoutMatch(w)))
    /\ [][\A w \in Workers :
            threads'[w].num_inversions >= threads[w].num_inversions]_vars

\* C15: for a difficulty d in 0..32 the mask get_difficulty returns has its
\* high d bits 0 and its low 32-d bits 1
C15_MaskShape ==
    gd_pc = "returned" =>
        /\ \A b \in 0 .. (WordBits - 1) :
              (b \in difficulty_mask) <=> (b < WordBits - gd_diff)
        /\ difficulty_mask = get_difficulty(gd_diff)

C15_Witness ==
    /\ gd_pc = "returned"
    /\ gd_diff = 0
    /\ difficulty_mask = 0 .. (WordBits - 1)
    /\ gd_i = WordBits

\* C16: with one thread and the mask of difficulty 0 the worker hashes
\* nonce 0 only and returns with nonce 0 recorded as its solution
C16_SolvesAtZero ==
    (num_threads = 1 /\ difficulty_mask = 0 .. (WordBits - 1)) =>
        /\ hashed[0] \subseteq {0}
        /\ w_pc[0] \in {"msig", "done"} =>
              /\ hashed[0] = {0}
              /\ threads[0].nonce = 0
              /\ Len(threads[0].solution_hash) > 0
              /\ threads[0].num_inversions = 0
        /\ w_pc[0] \notin {"tsig", "tunlock", "crashed"}

C16_Witness ==
    /\ num_threads = 1
    /\ difficulty_mask = 0 .. (WordBits - 1)
    /\ w_pc[0] = "done"
    /\ threads[0].solution_hash # <<>>

\* C18: with no solution in the nonce space the run ends when the space is
\* exhausted: once the published batches cover it, main starts no other
\* batch
C18_EndsAtExhaustion ==
    (SequentialSolution = -1 /\ Len(published) * NONCES_PER_TASK >= NonceMod)
        => g_pc \notin {"lock", "test", "cwait", "wait", "check", "publish"}

\* C19: a worker copies task_pointer only when it holds a batch, and never
\* starts its loop on a NULL pointer
C19_NeverClaimsEmpty ==
    /\ \A k \in DOMAIN claimed : claimed[k][2] # NULL
    /\ \A w \in Workers :
          /\ w_pc[w] = "claim" => task_pointer # NULL
          /\ w_pc[w] \in {"csig", "cunlock", "process", "found"}
                => task_nonces[w] # NULL
          /\ w_pc[w] # "crashed"

C19_Witness ==
    \E w \in Workers :
        /\ w_pc[w] = "process"
        /\ task_nonces[w] # NULL
        /\ solution_found
        /\ Len(claimed) >= 2

\* C20: main unlocks task_mutex only while it holds it, in the loop and
\* after it
C20_UnlockByHolder ==
    g_pc \in {"unlock", "funlock"} => task_mutex = Main

C20_Witness ==
    /\ g_pc = "funlock"
    /\ observed
    /\ task_mutex = Main

\* supporting C20: main leaves its loop through the break only; the counter
\* is a multiple of NONCES_PER_TASK at the test of the loop, never UINT64_MAX
C20_LoopLeftByBreakOnly ==
    /\ g_pc \in {"bcast", "funlock", "join", "print", "exit"} => observed
    /\ g_pc = "loop" => current_nonce < UINT64_MAX

====
